---- MODULE Spec2Model ----
(***************************************************************************)
(* r3u-http: one worker of the forking HTTP/1.x static file server of      *)
(* src/r3u_http.c (the daemon version, lines 395-1016).  A worker reads    *)
(* one request from its connection with fgets/fread, dispatches on the     *)
(* method, and writes one response with fprintf/fwrite.                    *)
(*                                                                         *)
(* Strings are sequences of one-character strings.  The connection's input *)
(* is a record [s, pad]: the bytes s followed by pad further bytes PadByte *)
(* (a run-length form of a long request body).                             *)
(***************************************************************************)
EXTENDS Integers, Sequences, FiniteSets, TLC

\* ------------------------------------------------------------------ bounds
\* stdio's BUFSIZ (8192 in glibc), scaled down: the size of the line buffers
\* of read_request_line and read_header_field and of the streaming chunk.
BUFSIZ == 32
\* The longest header block (in lines) the enumerated requests carry.
MaxHeaders == 2
\* The number of connections the clients open to the listener.
MaxConn == 2

\* ------------------------------------------------------- program constants
MAX_REQUEST_BODY_LENGTH == 4194304
\* The largest value of C's long; atol (glibc's strtol) saturates there.
LONG_MAX == 2147483647

\* ------------------------------------------------------------- characters
CR == "\r"
LF == "\n"
SP == " "
TAB == "\t"
PadByte == "x"

LowerCase ==
    <<"a","b","c","d","e","f","g","h","i","j","k","l","m",
      "n","o","p","q","r","s","t","u","v","w","x","y","z">>
UpperCase ==
    <<"A","B","C","D","E","F","G","H","I","J","K","L","M",
      "N","O","P","Q","R","S","T","U","V","W","X","Y","Z">>
Digits == <<"0","1","2","3","4","5","6","7","8","9">>

Min(a, b) == IF a < b THEN a ELSE b

\* islower(3) in the C locale.
islower(c) == \E i \in 1..26 : LowerCase[i] = c
isupper(c) == \E i \in 1..26 : UpperCase[i] = c
isdigit(c) == \E i \in 1..10 : Digits[i] = c
\* isspace(3) in the C locale, over the characters of the model.
isspace(c) == c \in {SP, TAB, CR, LF}

DigitVal(c) == (CHOOSE i \in 1..10 : Digits[i] = c) - 1

\* str[i] += 'A' - 'a' for a lowercase str[i].
toupper(c) ==
    IF islower(c) THEN UpperCase[CHOOSE i \in 1..26 : LowerCase[i] = c] ELSE c
\* The case folding strcasecmp and strncasecmp apply to both operands.
tolower(c) ==
    IF isupper(c) THEN LowerCase[CHOOSE i \in 1..26 : UpperCase[i] = c] ELSE c

\* uppcase(): every lowercase letter of the string is replaced in place.
uppcase(str) == [i \in 1..Len(str) |-> toupper(str[i])]

\* strchr(s, c): the index of the first c in s, 0 for NULL.
strchr(s, c) ==
    IF \E i \in 1..Len(s) : s[i] = c
    THEN CHOOSE i \in 1..Len(s) : s[i] = c /\ \A j \in 1..(i - 1) : s[j] # c
    ELSE 0

\* strspn(s, " \t"): the length of the leading run of spaces and tabs.
strspn(s) ==
    IF \E i \in 1..Len(s) : s[i] \notin {SP, TAB}
    THEN (CHOOSE i \in 1..Len(s) :
              s[i] \notin {SP, TAB} /\ \A j \in 1..(i - 1) : s[j] \in {SP, TAB}) - 1
    ELSE Len(s)

\* strcasecmp(a, b) == 0.
strcasecmp0(a, b) ==
    /\ Len(a) = Len(b)
    /\ \A i \in 1..Len(a) : tolower(a[i]) = tolower(b[i])

\* strncasecmp(p, lit, strlen(lit)) == 0: p begins with lit, case ignored.
strncasecmp0(p, lit) ==
    /\ Len(p) >= Len(lit)
    /\ \A i \in 1..Len(lit) : tolower(p[i]) = tolower(lit[i])

\* The magnitude strtol accumulates from the digits at the head of s,
\* saturating at LONG_MAX.
RECURSIVE AccDigits(_, _)
AccDigits(s, acc) ==
    IF s = <<>> \/ ~isdigit(Head(s)) THEN acc
    ELSE IF acc > (LONG_MAX - DigitVal(Head(s))) \div 10 THEN LONG_MAX
    ELSE AccDigits(Tail(s), acc * 10 + DigitVal(Head(s)))

RECURSIVE SkipSpace(_)
SkipSpace(s) ==
    IF s # <<>> /\ isspace(Head(s)) THEN SkipSpace(Tail(s)) ELSE s

\* atol(3) as glibc defines it, strtol(s, NULL, 10): leading white space is
\* skipped, an optional sign is taken, the digits that follow are converted
\* and anything else ends the number (no digits: 0); out of range saturates.
atol(s) ==
    LET t == SkipSpace(s)
        neg == t # <<>> /\ Head(t) = "-"
        d == IF t # <<>> /\ Head(t) \in {"-", "+"} THEN Tail(t) ELSE t
        mag == AccDigits(d, 0)
    IN  IF neg
        THEN (IF mag = LONG_MAX THEN (0 - LONG_MAX) - 1 ELSE 0 - mag)
        ELSE mag

\* atoi(3), (int) strtol(s, NULL, 10), where int is as wide as long.
atoi(s) == atol(s)

\* printf's %ld / %d of a value.
RECURSIVE DecDigits(_)
DecDigits(n) ==
    IF n < 10 THEN <<Digits[n + 1]>>
    ELSE DecDigits(n \div 10) \o <<Digits[(n % 10) + 1]>>

FormatLong(n) ==
    IF n >= 0 THEN DecDigits(n)
    ELSE IF n = (0 - LONG_MAX) - 1
         THEN <<"-","2","1","4","7","4","8","3","6","4","8">>
         ELSE <<"-">> \o DecDigits(0 - n)

\* ------------------------------------------------------------ input stream
StreamLen(st) == Len(st.s) + st.pad

\* The first n bytes of a stream that holds at least n.
TakeBytes(st, n) ==
    IF n <= Len(st.s)
    THEN [s |-> SubSeq(st.s, 1, n), pad |-> 0]
    ELSE [s |-> st.s, pad |-> n - Len(st.s)]

DropBytes(st, n) ==
    IF n <= Len(st.s)
    THEN [s |-> SubSeq(st.s, n + 1, Len(st.s)), pad |-> st.pad]
    ELSE [s |-> <<>>, pad |-> st.pad - (n - Len(st.s))]

Repeat(c, n) == [i \in 1..n |-> c]

\* The number of bytes fgets(buf, BUFSIZ, in) stores: up to and including the
\* first newline, at most BUFSIZ - 1, fewer at end of input.  0 is fgets
\* returning NULL.
FgetsLen(st) ==
    LET nl == strchr(st.s, LF)
    IN  IF nl # 0 /\ nl <= BUFSIZ - 1 THEN nl
        ELSE Min(BUFSIZ - 1, StreamLen(st))

\* The line fgets stores (the pad bytes contain no newline).
FgetsLine(st) ==
    LET n == FgetsLen(st)
    IN  IF n <= Len(st.s) THEN SubSeq(st.s, 1, n)
        ELSE st.s \o Repeat(PadByte, n - Len(st.s))

\* ---------------------------------------------------------------- strings
S_GET == <<"G","E","T">>
S_HEAD == <<"H","E","A","D">>
S_POST == <<"P","O","S","T">>
S_HTTP1 == <<"H","T","T","P","/","1",".">>
S_ContentLength ==
    <<"C","o","n","t","e","n","t","-","L","e","n","g","t","h">>
CRLF == <<CR, LF>>

\* ------------------------------------------------------------- filesystem
\* A path is walked component by component from the root, as the kernel
\* does for lstat(2) and open(2); a tree maps the component list of each
\* existing node to [kind, data, readable].  Symbolic links are terminal.
RECURSIVE SplitPath(_, _, _)
SplitPath(p, cur, acc) ==
    IF p = <<>> THEN (IF cur = <<>> THEN acc ELSE Append(acc, cur))
    ELSE IF Head(p) = "/"
         THEN SplitPath(Tail(p), <<>>, IF cur = <<>> THEN acc ELSE Append(acc, cur))
         ELSE SplitPath(Tail(p), Append(cur, Head(p)), acc)

\* Where a failed walk (ENOENT, ENOTDIR) ends: no component holds a slash.
NoPlace == << <<"/">> >>

RECURSIVE Walk(_, _, _)
Walk(tree, at, comps) ==
    IF at \notin DOMAIN tree THEN NoPlace
    ELSE IF comps = <<>> THEN at
    ELSE IF tree[at].kind # "dir" THEN NoPlace
    ELSE IF Head(comps) = <<".">> THEN Walk(tree, at, Tail(comps))
    ELSE IF Head(comps) = <<".", ".">>
         THEN Walk(tree, IF at = <<>> THEN at ELSE SubSeq(at, 1, Len(at) - 1),
                   Tail(comps))
    ELSE Walk(tree, Append(at, Head(comps)), Tail(comps))

\* The node a path names, NoNode when the walk fails.
NoNode == [kind |-> "none", data |-> <<>>, readable |-> FALSE]
Lookup(tree, path) ==
    LET at == Walk(tree, <<>>, SplitPath(path, <<>>, <<>>))
    IN  IF at \in DOMAIN tree THEN tree[at] ELSE NoNode

\* The walk of a process whose root directory is root (chroot(2)): ".." at
\* the root stays there.
RECURSIVE WalkIn(_, _, _, _)
WalkIn(tree, root, at, comps) ==
    IF at \notin DOMAIN tree THEN NoPlace
    ELSE IF comps = <<>> THEN at
    ELSE IF tree[at].kind # "dir" THEN NoPlace
    ELSE IF Head(comps) = <<".">> THEN WalkIn(tree, root, at, Tail(comps))
    ELSE IF Head(comps) = <<".", ".">>
         THEN WalkIn(tree, root,
                     IF at = root \/ at = <<>> THEN at
                     ELSE SubSeq(at, 1, Len(at) - 1),
                     Tail(comps))
    ELSE WalkIn(tree, root, Append(at, Head(comps)), Tail(comps))

\* Where a path leads for a process with root directory root and working
\* directory cwd: an absolute path starts at the root, any other at the
\* working directory, the empty path leads nowhere (ENOENT).
Place(tree, root, cwd, path) ==
    IF path = <<>> THEN NoPlace
    ELSE WalkIn(tree, root, IF Head(path) = "/" THEN root ELSE cwd,
                SplitPath(path, <<>>, <<>>))

\* File contents of n bytes.
FileBytes(n) == [i \in 1..n |-> IF i % 2 = 1 THEN "p" ELSE "q"]

Dir == [kind |-> "dir", data |-> <<>>, readable |-> TRUE]
Reg(n) == [kind |-> "reg", data |-> FileBytes(n), readable |-> TRUE]

\* The document root /w and what it holds: an empty file e, a small file s,
\* a file b of more than two chunks, a file c of exactly one chunk, an
\* unreadable file u, a directory d, a symbolic link l to s, a device v;
\* /secret and /dev/null lie outside the document root.
docroot == <<"/", "w">>
InitialTree ==
    LET W == << <<"w">> >>
    IN  ( <<>> :> Dir ) @@ ( W :> Dir )
        @@ ( Append(W, <<"e">>) :> Reg(0) )
        @@ ( Append(W, <<"s">>) :> Reg(3) )
        @@ ( Append(W, <<"b">>) :> Reg(2 * BUFSIZ + 1) )
        @@ ( Append(W, <<"c">>) :> Reg(BUFSIZ) )
        @@ ( Append(W, <<"u">>) :> [kind |-> "reg", data |-> FileBytes(2), readable |-> FALSE] )
        @@ ( Append(W, <<"d">>) :> Dir )
        @@ ( Append(W, <<"l">>) :> [kind |-> "lnk", data |-> <<"s">>, readable |-> TRUE] )
        @@ ( Append(W, <<"v">>) :> [kind |-> "chr", data |-> <<>>, readable |-> TRUE] )
        @@ ( << <<"s","e","c","r","e","t">> >> :> Reg(5) )
        @@ ( << <<"d","e","v">> >> :> Dir )
        @@ ( << <<"d","e","v">>, <<"n","u","l","l">> >>
                 :> [kind |-> "chr", data |-> <<>>, readable |-> TRUE] )

\* Mutant of S_ISREG: the mode is that of a link's target, as stat(2) gives.
S_ISREG_followed(node) == node.kind \in {"reg", "lnk"}

\* S_ISREG(st.st_mode) of what lstat(2) reports.
S_ISREG(node) == node.kind = "reg"

\* Mutant of build_fspath: the URL path is cleaned of its empty, "." and ".."
\* segments before it is joined to the root.
build_fspath_clean(root, urlpath) ==
    LET segs == SplitPath(urlpath, <<>>, <<>>)
        keep == SelectSeq(segs, LAMBDA c : c \notin { <<".">>, <<".", ".">> })
        Join[i \in 0..Len(keep)] ==
            IF i = 0 THEN <<>> ELSE Join[i - 1] \o <<"/">> \o keep[i]
    IN  root \o Join[Len(keep)]

\* build_fspath(): sprintf(path, "%s/%s", docroot, urlpath).
build_fspath(root, urlpath) == root \o <<"/">> \o urlpath

\* ------------------------------------------------------------------- main
\* isalnum(c)
isalnum(c) == islower(c) \/ isupper(c) \/ isdigit(c)

\* getcwd(): the absolute path of the working directory.
RECURSIVE getcwd(_)
getcwd(at) ==
    IF at = <<>> THEN <<"/">>
    ELSE (IF Len(at) = 1 THEN <<>> ELSE getcwd(SubSeq(at, 1, Len(at) - 1)))
         \o <<"/">> \o at[Len(at)]

\* The document root main makes of its argument: the working directory is
\* put before an argument that begins with a letter or a digit, any other
\* argument is taken as it is.
main_docroot(arg, cwd) ==
    IF arg # <<>> /\ isalnum(Head(arg))
    THEN getcwd(cwd) \o <<"/">> \o arg
    ELSE arg

\* main() up to server_main, started in working directory cwd with argument
\* arg and the options --debug and --chroot: the document root is built and
\* must be a directory for lstat (checked is where it lies); with --chroot
\* the process's root becomes that directory and docroot the empty string;
\* without --debug become_daemon changes the working directory to "/" and
\* needs /dev/null.  ok is whether server_main is reached.
main(arg, cwd, debug_mode, do_chroot) ==
    LET d == main_docroot(arg, cwd)
        at == Place(InitialTree, <<>>, cwd, d)
        isdir == at \in DOMAIN InitialTree /\ InitialTree[at].kind = "dir"
        root == IF do_chroot THEN at ELSE <<>>
        null == Place(InitialTree, root, root, <<"/","d","e","v","/","n","u","l","l">>)
    IN  [ok |-> isdir /\ (debug_mode \/ null \in DOMAIN InitialTree),
         docroot |-> IF do_chroot THEN <<>> ELSE d,
         cwd |-> IF debug_mode THEN cwd ELSE root,
         root |-> root,
         checked |-> at]

\* What main leaves when the server is started as: r3u_http --debug /w
Started == main(docroot, <<>>, TRUE, FALSE)

\* ------------------------------------------------------------------ inputs
\* What the client sends.  A request is described by record g:
\*   form   "full" (method SP path SP version), "onespace" (method SP path),
\*          "nospace" (method only) or "empty" (nothing is sent);
\*   M, P   the method and path tokens as sent; V the version token, with
\*          V.valid when it is HTTP/1.<n> for the number V.n;
\*   eol    the line end, CR LF or LF;
\*   hdrs   the header lines, term whether the blank line follows them,
\*   tail   the bytes after the blank line;
\*   declared  the last Content-Length line among hdrs, if any.
Methods ==
    { S_GET, <<"g","e","t">>, S_HEAD, S_POST, <<"P","o","s","t">>,
      <<"P","U","T">>, <<>>, <<"G","E","T","S">> }

LongPath == <<"/">> \o Repeat("a", BUFSIZ)
UrlPaths ==
    { <<"/","e">>, <<"/","s">>, <<"/","b">>, <<"/","c">>, <<"/","u">>,
      <<"/","d">>, <<"/","l">>, <<"/","v">>, <<"/","m">>,
      <<"/",".",".","/","s","e","c","r","e","t">>,
      <<"/","/","d","/",".",".","/","/","s">>, <<"/","%","7","3">>, LongPath }

Versions ==
    { [t |-> S_HTTP1 \o <<"0">>, valid |-> TRUE, n |-> 0],
      [t |-> S_HTTP1 \o <<"1">>, valid |-> TRUE, n |-> 1],
      [t |-> S_HTTP1 \o <<"1","0">>, valid |-> TRUE, n |-> 10],
      [t |-> <<"H","T","T","P","/","2",".","0">>, valid |-> FALSE, n |-> 0],
      [t |-> <<"h","t","t","p","/","1",".","1">>, valid |-> FALSE, n |-> 1],
      [t |-> S_HTTP1 \o <<"x">>, valid |-> FALSE, n |-> 0],
      [t |-> S_HTTP1 \o <<"-","5">>, valid |-> FALSE, n |-> 0] }

HL_Host == <<"H","o","s","t",":"," ","x">>
HL_CL(v) == S_ContentLength \o <<":", " ">> \o v
HeaderLines ==
    { HL_Host,
      HL_CL(<<"3">>),
      <<"c","o","n","t","e","n","t","-","l","e","n","g","t","h",":","2">>,
      HL_CL(<<"0">>),
      HL_CL(<<"-","1">>),
      HL_CL(<<"a","b","c">>),
      HL_CL(<<"4","1","9","4","3","0","4">>),
      HL_CL(<<"4","1","9","4","3","0","5">>),
      HL_CL(<<"9","9","9","9","9","9","9","9","9","9","9">>),
      <<"H","o","s","t"," ","x">>,
      <<"X",":"," ",TAB,"v",":"," ","w">>,
      <<" ">>,
      <<"X",":">> \o Repeat("a", BUFSIZ) }

NoTail == [s |-> <<>>, pad |-> 0]
\* A second request sent behind the first on the same connection.
Pipelined ==
    [s |-> S_GET \o <<SP, "/", "b", SP>> \o S_HTTP1 \o <<"0">> \o CRLF \o CRLF,
     pad |-> 0]
Tails ==
    { NoTail, Pipelined,
      [s |-> <<"a","b">>, pad |-> 0],
      [s |-> <<"a","b","c","d","e">>, pad |-> 0],
      [s |-> <<>>, pad |-> MAX_REQUEST_BODY_LENGTH + 1] }

HeaderBlocks == UNION { [1..k -> HeaderLines] : k \in 0..MaxHeaders }

\* Every request line, with at most one plain header and no body.
RequestLineInputs ==
    { [form |-> "full", M |-> m, P |-> p, V |-> v, eol |-> e,
       hdrs |-> h, term |-> TRUE, tail |-> NoTail] :
        m \in Methods, p \in UrlPaths, v \in Versions,
        e \in {CRLF, <<LF>>}, h \in {<<>>, <<HL_Host>>} }
    \cup
    { [form |-> f, M |-> m, P |-> <<"/","s">>,
       V |-> [t |-> S_HTTP1 \o <<"1">>, valid |-> TRUE, n |-> 1], eol |-> e,
       hdrs |-> <<>>, term |-> TRUE, tail |-> NoTail] :
        f \in {"empty", "nospace", "onespace"}, m \in {S_GET, S_POST},
        e \in {CRLF, <<LF>>} }

\* Every header block and tail, behind three request lines.
HeaderInputs ==
    { [form |-> "full", M |-> r[1], P |-> r[2],
       V |-> [t |-> S_HTTP1 \o <<"1">>, valid |-> TRUE, n |-> 1], eol |-> CRLF,
       hdrs |-> h, term |-> x[1], tail |-> x[2]] :
        r \in { <<S_GET, <<"/","s">> >>, <<S_POST, <<"/","m">> >>,
                <<S_HEAD, <<"/","b">> >> },
        h \in HeaderBlocks,
        x \in ({TRUE} \X Tails) \cup {<<FALSE, NoTail>>} }

\* Whether header block h holds a Content-Length line, and the value text
\* of the last one sent, leading blanks off.
IsContentLength(line) == strncasecmp0(line, S_ContentLength \o <<":">>)
LastDeclared(h) ==
    LET at == { i \in 1..Len(h) : IsContentLength(h[i]) }
        last == CHOOSE x \in at : \A y \in at : y <= x
        v == SubSeq(h[last], Len(S_ContentLength) + 2, Len(h[last]))
    IN  IF at = {} THEN [present |-> FALSE, text |-> <<>>]
        ELSE [present |-> TRUE, text |-> SubSeq(v, strspn(v) + 1, Len(v))]

\* The requests, each with what it declares as its body length.
Inputs ==
    { [form |-> g.form, M |-> g.M, P |-> g.P, V |-> g.V, eol |-> g.eol,
       hdrs |-> g.hdrs, term |-> g.term, tail |-> g.tail,
       declared |-> LastDeclared(g.hdrs)] :
        g \in RequestLineInputs \cup HeaderInputs }

RECURSIVE JoinLines(_, _)
JoinLines(lines, eol) ==
    IF lines = <<>> THEN <<>>
    ELSE Head(lines) \o eol \o JoinLines(Tail(lines), eol)

\* The bytes on the wire for request g.
RequestLineOf(g) ==
    CASE g.form = "empty" -> <<>>
      [] g.form = "nospace" -> g.M \o g.eol
      [] g.form = "onespace" -> g.M \o <<SP>> \o g.P \o g.eol
      [] OTHER -> g.M \o <<SP>> \o g.P \o <<SP>> \o g.V.t \o g.eol

Wire(g) ==
    IF g.form = "empty" THEN NoTail
    ELSE [s |-> RequestLineOf(g) \o JoinLines(g.hdrs, g.eol)
                \o (IF g.term THEN g.eol ELSE <<>>) \o g.tail.s,
          pad |-> g.tail.pad]

\* ------------------------------------------------------------------- state
VARIABLES
    given,      \* the request the client sends (never changes)
    in,         \* FILE *in: the bytes of the connection not yet read
    out,        \* FILE *out: the output calls made so far, in order
    pc,         \* where the worker is
    req,        \* struct HTTPRequest
    info,       \* struct FileInfo of do_file_response
    fs,         \* the filesystem tree
    fd,         \* the read offset of the open file, -1 when none is open
    msg,        \* the message of log_exit, "" while none
    trace,      \* what the worker has done: lstat calls, open calls, the
                \* body buffer allocation, the input left after the headers,
                \* the output that has left the buffer of out for the socket
    heap,       \* the worker's heap: the blocks malloc gave out
    listener,   \* the listener process: where server_main is, its local
                \* sock, the accepted sockets it holds open, the accept count,
                \* and what main left it and its workers: docroot, the root
                \* and the working directory of the process
    procs,      \* the worker processes fork has made, by connection
    conns,      \* each connection's client: none, unsent, sent, gone
    cur         \* the worker whose state the variables above hold, 0 if none

server == <<listener, procs, conns, cur>>
vars == <<given, in, out, pc, req, info, fs, fd, msg, trace, heap,
          listener, procs, conns, cur>>

\* The file a path names for the listener and the workers it forks.
NodeAt(tree, path) ==
    LET at == Place(tree, listener.root, listener.cwd, path)
    IN  IF at \in DOMAIN tree THEN tree[at] ELSE NoNode

NullBody == [null |-> TRUE, s |-> <<>>, pad |-> 0]

\* The heap: the blocks that are allocated (live), the blocks free() has
\* released, and whether a free() was given a block that is not live.  A
\* block is named by the pointer that holds it; the blocks of a header field
\* carry the field's position on the wire.
EmptyHeap == [live |-> {}, freed |-> {}, bad |-> FALSE]
Block(name, i) == <<name, i>>

\* xmalloc(): the blocks bs become live.
xmalloc(h, bs) == [h EXCEPT !.live = @ \cup bs]

\* Mutant of free: the block is left allocated.
free_nothing(h, b) == h

\* free(): a live block is released; any other is a fault.
free(h, b) ==
    IF b \in h.live
    THEN [h EXCEPT !.live = @ \ {b}, !.freed = @ \cup {b}]
    ELSE [h EXCEPT !.bad = TRUE]

\* A read or write through a pointer: a fault unless its block is live.
touch(h, bs) == IF bs \subseteq h.live THEN h ELSE [h EXCEPT !.bad = TRUE]

\* free() of each block of a sequence, in order.
RECURSIVE FreeAll(_, _)
FreeAll(h, bs) ==
    IF bs = <<>> THEN h ELSE FreeAll(free(h, Head(bs)), Tail(bs))

\* The three blocks of the header field at wire position w, in the order
\* free_request releases them.
FieldBlocks(w) == << Block("h.name", w), Block("h.value", w), Block("h", w) >>

\* The blocks of a header list of n fields, from its head.
RECURSIVE ListBlocks(_, _)
ListBlocks(n, i) ==
    IF i > n THEN <<>> ELSE FieldBlocks(n - i + 1) \o ListBlocks(n, i + 1)

\* The state of a worker process right after fork, on a connection that
\* carries request g: service has not yet read anything.
Worker(g) ==
    [given |-> g, in |-> Wire(g), out |-> <<>>, pc |-> "read_request_line",
     req |-> [protocol_minor_version |-> 0, method |-> <<>>, path |-> <<>>,
              header |-> <<>>, body |-> NullBody, length |-> 0],
     info |-> [path |-> <<>>, size |-> 0, ok |-> FALSE],
     fd |-> -1, msg |-> "",
     trace |-> [lstat |-> 0, open |-> 0, bodyAlloc |-> FALSE,
                afterHeaders |-> NoTail, written |-> <<>>],
     heap |-> EmptyHeap]

\* What the worker variables hold while no worker is on the processor.
NoRequest ==
    [form |-> "empty", M |-> <<>>, P |-> <<>>,
     V |-> [t |-> <<>>, valid |-> FALSE, n |-> 0], eol |-> CRLF,
     hdrs |-> <<>>, term |-> FALSE, tail |-> NoTail,
     declared |-> [present |-> FALSE, text |-> <<>>]]
Idle == [Worker(NoRequest) EXCEPT !.pc = "idle"]
NoProcess == [st |-> "none", status |-> -1, fds |-> {}, saved |-> Idle]

\* The state of the worker on the processor, and its restoring.
Current ==
    [given |-> given, in |-> in, out |-> out, pc |-> pc, req |-> req,
     info |-> info, fd |-> fd, msg |-> msg, trace |-> trace, heap |-> heap]
Load(w) ==
    /\ given' = w.given /\ in' = w.in /\ out' = w.out /\ pc' = w.pc
    /\ req' = w.req /\ info' = w.info /\ fd' = w.fd /\ msg' = w.msg
    /\ trace' = w.trace /\ heap' = w.heap

Init ==
    /\ given \in Inputs
    /\ in = Wire(given)
    /\ out = <<>>
    /\ pc = "read_request_line"
    /\ req = [protocol_minor_version |-> 0, method |-> <<>>, path |-> <<>>,
              header |-> <<>>, body |-> NullBody, length |-> 0]
    /\ info = [path |-> <<>>, size |-> 0, ok |-> FALSE]
    /\ fs = InitialTree
    /\ fd = -1
    /\ msg = ""
    /\ trace = [lstat |-> 0, open |-> 0, bodyAlloc |-> FALSE,
                afterHeaders |-> NoTail, written |-> <<>>]
    /\ heap = EmptyHeap
    /\ listener = [pc |-> "close", sock |-> 1, fds |-> {1}, accepted |-> 1]
                  @@ Started
    /\ procs = [p \in 1..MaxConn |->
                   IF p = 1 THEN [st |-> "running", status |-> -1, fds |-> {1},
                                  saved |-> Idle]
                   ELSE NoProcess]
    /\ conns = [k \in 1..MaxConn |-> IF k = 1 THEN "sent" ELSE "none"]
    /\ cur = 1

\* Mutant of log_exit: the message is logged and the worker carries on.
log_noexit(m) ==
    /\ pc' = "respond_to"
    /\ msg' = m

\* log_exit(): the message is logged and the worker exits with status 1.
log_exit(m) ==
    /\ pc' = "exit1"
    /\ msg' = m

\* read_request_line(): one fgets, split at the first two spaces.  buf is the
\* line, rest1 what follows its first space, p what follows the second.
read_request_line ==
    /\ pc = "read_request_line"
    /\ \E buf \in {FgetsLine(in)} :
       \E rest1 \in {SubSeq(buf, strchr(buf, SP) + 1, Len(buf))} :
       \E p \in {SubSeq(rest1, strchr(rest1, SP) + 1, Len(rest1))} :
       LET n == FgetsLen(in)
           sp1 == strchr(buf, SP)
           sp2 == strchr(rest1, SP)
       IN  /\ in' = DropBytes(in, n)
           /\ heap' = xmalloc(heap,
                          {Block("req", 0)}
                          \cup (IF n # 0 /\ sp1 # 0 THEN {Block("method", 0)} ELSE {})
                          \cup (IF n # 0 /\ sp1 # 0 /\ sp2 # 0
                                THEN {Block("path", 0)} ELSE {}))
           /\ IF n = 0 THEN
                  /\ log_exit("no request line")
                  /\ req' = req
              ELSE IF sp1 = 0 THEN
                  /\ log_exit("parse error on request line (1)")
                  /\ req' = req
              ELSE IF sp2 = 0 THEN
                  /\ log_exit("parse error on request line (2)")
                  /\ req' = [req EXCEPT !.method = uppcase(SubSeq(buf, 1, sp1 - 1))]
              ELSE IF ~strncasecmp0(p, S_HTTP1) THEN
                  /\ log_exit("parse error on request line (3)")
                  /\ req' = [req EXCEPT
                                !.method = uppcase(SubSeq(buf, 1, sp1 - 1)),
                                !.path = SubSeq(rest1, 1, sp2 - 1)]
              ELSE
                  /\ pc' = "read_header_field"
                  /\ msg' = msg
                  /\ req' = [req EXCEPT
                                !.method = uppcase(SubSeq(buf, 1, sp1 - 1)),
                                !.path = SubSeq(rest1, 1, sp2 - 1),
                                !.protocol_minor_version =
                                    atoi(SubSeq(p, Len(S_HTTP1) + 1, Len(p)))]
    /\ UNCHANGED <<given, out, info, fs, fd, trace, server>>

\* Mutant of skip_blanks: one blank after the colon is skipped, not the run.
skip_one_blank(p) == IF p # <<>> /\ p[1] \in {SP, TAB} THEN 1 ELSE 0

\* p += strspn(p, " \t")
skip_blanks(p) == strspn(p)

\* The field read_header_field makes of a line that holds a colon: the name
\* is what precedes the first colon, the value what follows it and its
\* blanks, to the end of the buffer.
header_field_of(buf) ==
    LET colon == strchr(buf, ":")
        after == SubSeq(buf, colon + 1, Len(buf))
    IN  [name |-> SubSeq(buf, 1, colon - 1),
         value |-> SubSeq(after, skip_blanks(after) + 1, Len(after))]

\* read_header_field() and the loop of read_request that calls it: one
\* fgets; the blank line ends the loop, any other line is split at its first
\* colon and the field is put at the head of the list.
read_header_field ==
    /\ pc = "read_header_field"
    /\ LET n == FgetsLen(in)
           buf == FgetsLine(in)
           colon == strchr(buf, ":")
           h == header_field_of(buf)
       IN  /\ in' = DropBytes(in, n)
           /\ IF n = 0 THEN
                  /\ log_exit("failed to read request header field")
                  /\ UNCHANGED <<req, trace, heap>>
              ELSE IF buf = <<LF>> \/ buf = <<CR, LF>> THEN
                  /\ pc' = "content_length"
                  /\ trace' = [trace EXCEPT !.afterHeaders = in']
                  /\ UNCHANGED <<req, msg, heap>>
              ELSE IF colon = 0 THEN
                  /\ log_exit("parse error on request header field")
                  /\ UNCHANGED <<req, trace, heap>>
              ELSE
                  /\ req' = [req EXCEPT !.header = <<h>> \o req.header]
                  /\ heap' = xmalloc(heap,
                                 { Block("h", Len(req.header) + 1),
                                   Block("h.name", Len(req.header) + 1),
                                   Block("h.value", Len(req.header) + 1) })
                  /\ UNCHANGED <<pc, msg, trace>>
    /\ UNCHANGED <<given, out, info, fs, fd, server>>

\* Mutant of lookup_header_field_value: the scan keeps going and the last
\* field of the list that matches wins.
lookup_last_of_list(header, name) ==
    IF \E i \in 1..Len(header) : strcasecmp0(header[i].name, name)
    THEN [found |-> TRUE,
          value |-> header[CHOOSE i \in 1..Len(header) :
                              /\ strcasecmp0(header[i].name, name)
                              /\ \A j \in (i + 1)..Len(header) :
                                    ~strcasecmp0(header[j].name, name)].value]
    ELSE [found |-> FALSE, value |-> <<>>]

\* lookup_header_field_value(): the value of the first field of the list
\* whose name matches; found is FALSE for NULL.
lookup_header_field_value(header, name) ==
    IF \E i \in 1..Len(header) : strcasecmp0(header[i].name, name)
    THEN [found |-> TRUE,
          value |-> header[CHOOSE i \in 1..Len(header) :
                              /\ strcasecmp0(header[i].name, name)
                              /\ \A j \in 1..(i - 1) :
                                    ~strcasecmp0(header[j].name, name)].value]
    ELSE [found |-> FALSE, value |-> <<>>]

\* Mutant of body_too_long: the cap itself is refused.
body_too_long_at_cap(len) == len >= MAX_REQUEST_BODY_LENGTH

\* req->length > MAX_REQUEST_BODY_LENGTH
body_too_long(len) == len > MAX_REQUEST_BODY_LENGTH

\* content_length() and the checks of read_request on its result.
content_length ==
    /\ pc = "content_length"
    /\ LET val == lookup_header_field_value(req.header, S_ContentLength)
           len == IF val.found THEN atol(val.value) ELSE 0
       IN  IF len < 0 THEN
               /\ log_exit("negative Content-Length value")
               /\ req' = req
           ELSE IF len # 0 /\ body_too_long(len) THEN
               /\ log_exit("request body too long")
               /\ req' = [req EXCEPT !.length = len]
           ELSE
               /\ pc' = IF len # 0 THEN "read_body" ELSE "respond_to"
               /\ req' = [req EXCEPT !.length = len, !.body = NullBody]
               /\ msg' = msg
    /\ UNCHANGED <<given, in, out, info, fs, fd, trace, heap, server>>

\* fread(ptr, size, 1, in): one item of size bytes.  The bytes available, up
\* to size, are stored and consumed; the item counts only when it is whole.
fread(st, size) ==
    LET n == Min(size, StreamLen(st))
    IN  [items |-> IF n = size THEN 1 ELSE 0,
         got |-> TakeBytes(st, n),
         rest |-> DropBytes(st, n)]

\* Mutant of body_read_failed: only a negative count is an error, as it
\* is for read(2).
body_read_failed_negative(items) == items < 0

\* fread(...) < 1
body_read_failed(items) == items < 1

\* The body of read_request: xmalloc(req->length), then one fread of that
\* many bytes, which fails when fewer are left.
read_body ==
    /\ pc = "read_body"
    /\ trace' = [trace EXCEPT !.bodyAlloc = TRUE]
    /\ heap' = xmalloc(heap, {Block("body", 0)})
    /\ LET r == fread(in, req.length)
       IN  /\ in' = r.rest
           /\ req' = [req EXCEPT !.body =
                         [null |-> FALSE, s |-> r.got.s, pad |-> r.got.pad]]
           /\ IF body_read_failed(r.items)
              THEN log_exit("failed to read request body")
              ELSE pc' = "respond_to" /\ msg' = msg
    /\ UNCHANGED <<given, out, info, fs, fd, server>>

\* One output call: kind k, literal text s, formatted number or bytes t.
Ev(k, s, t) == [k |-> k, s |-> s, t |-> t]

\* output_common_header_fields(): the status line and three header lines.
output_common_header_fields(r, status) ==
    << Ev("status", status, FormatLong(r.protocol_minor_version)),
       Ev("Date", "", <<>>),
       Ev("Server", "r3u http/0.0.1", <<>>),
       Ev("Connection", "close", <<>>) >>

method_not_allowed(r) == output_common_header_fields(r, "405 Method Not Allowed")
not_implemented(r) == output_common_header_fields(r, "501 Not Implemented")
not_found(r) == output_common_header_fields(r, "404 Not Found")

\* guess_content_type()
guess_content_type(i) == "text/html"

\* strcmp(a, b) == 0
strcmp0(a, b) == a = b

\* Mutant of respond_to_branch: only the first letters are compared, as
\* strncmp(method, "GET", 3) would.
respond_to_branch_prefix(method) ==
    IF Len(method) >= 3 /\ SubSeq(method, 1, 3) = S_GET THEN "do_file_response"
    ELSE IF Len(method) >= 4 /\ SubSeq(method, 1, 4) = S_HEAD THEN "do_file_response"
    ELSE IF Len(method) >= 4 /\ SubSeq(method, 1, 4) = S_POST THEN "method_not_allowed"
    ELSE "not_implemented"

\* The branch respond_to takes for a method.
respond_to_branch(method) ==
    IF strcmp0(method, S_GET) THEN "do_file_response"
    ELSE IF strcmp0(method, S_HEAD) THEN "do_file_response"
    ELSE IF strcmp0(method, S_POST) THEN "method_not_allowed"
    ELSE "not_implemented"

\* respond_to(): the dispatch on the method.
respond_to ==
    /\ pc = "respond_to"
    /\ IF respond_to_branch(req.method) = "do_file_response" THEN
           /\ pc' = "do_file_response"
           /\ out' = out
       ELSE IF respond_to_branch(req.method) = "method_not_allowed" THEN
           /\ pc' = "free_request"
           /\ out' = out \o method_not_allowed(req)
       ELSE
           /\ pc' = "free_request"
           /\ out' = out \o not_implemented(req)
    /\ heap' = touch(heap, {Block("req", 0), Block("method", 0)})
    /\ UNCHANGED <<given, in, req, info, fs, fd, msg, trace, server>>

\* get_fileinfo(): lstat of docroot/urlpath; ok only for a regular file.
get_fileinfo(tree, root, urlpath) ==
    LET path == build_fspath(root, urlpath)
        st == NodeAt(tree, path)
    IN  IF st.kind = "none" THEN [path |-> path, size |-> 0, ok |-> FALSE]
        ELSE IF ~S_ISREG(st) THEN [path |-> path, size |-> 0, ok |-> FALSE]
        ELSE [path |-> path, size |-> Len(st.data), ok |-> TRUE]

\* Mutant of sends_body: the file is streamed whatever the method.
sends_body_always(method) == TRUE

\* strcmp(req->method, "HEAD") != 0: the file's bytes follow the headers.
sends_body(method) == ~strcmp0(method, S_HEAD)

\* free_fileinfo(): free(info->path); free(info).
free_fileinfo(h) == FreeAll(h, << Block("info.path", 0), Block("info", 0) >>)

\* do_file_response() up to the blank line: 404, or the 200 header block.
do_file_response ==
    /\ pc = "do_file_response"
    /\ info' = get_fileinfo(fs, listener.docroot, req.path)
    /\ trace' = [trace EXCEPT !.lstat = @ + 1]
    /\ IF ~info'.ok THEN
           /\ pc' = "free_request"
           /\ heap' = touch(free_fileinfo(xmalloc(touch(heap, {Block("path", 0)}),
                                                  {Block("info", 0), Block("info.path", 0)})),
                            {Block("req", 0)})
           /\ out' = out \o not_found(req)
       ELSE
           /\ heap' = touch(xmalloc(touch(heap, {Block("path", 0)}),
                                    {Block("info", 0), Block("info.path", 0)}),
                            {Block("req", 0), Block("method", 0), Block("info", 0)})
           /\ pc' = IF sends_body(req.method) THEN "open" ELSE "fflush"
           /\ out' = out \o output_common_header_fields(req, "200 OK")
                         \o << Ev("Content-Length", "", FormatLong(info'.size)),
                               Ev("Content-Type", guess_content_type(info'), <<>>),
                               Ev("blank", "", <<>>) >>
    /\ UNCHANGED <<given, in, req, fs, fd, msg, server>>

\* open(info->path, O_RDONLY)
open_file ==
    /\ pc = "open"
    /\ trace' = [trace EXCEPT !.open = @ + 1]
    /\ LET node == NodeAt(fs, info.path)
       IN  IF node.kind = "none" \/ ~node.readable THEN
               /\ log_exit("failed to open")
               /\ fd' = fd
           ELSE
               /\ pc' = "stream"
               /\ fd' = 0
               /\ msg' = msg
    /\ heap' = touch(heap, {Block("info", 0), Block("info.path", 0)})
    /\ UNCHANGED <<given, in, out, req, info, fs, server>>

\* Mutant of fwrite: each chunk replaces the bytes written before it.
fwrite_overwrite(o, bytes) ==
    IF o # <<>> /\ o[Len(o)].k = "body"
    THEN [o EXCEPT ![Len(o)].t = bytes]
    ELSE Append(o, [k |-> "body", s |-> "", t |-> bytes])

\* fwrite(buf, 1, n, out): the bytes join the body written so far.
fwrite(o, bytes) ==
    IF o # <<>> /\ o[Len(o)].k = "body"
    THEN [o EXCEPT ![Len(o)].t = @ \o bytes]
    ELSE Append(o, Ev("body", "", bytes))

\* Where the tree keeps a file that is open and has lost its name (it was
\* removed or replaced): no path leads there.
Unlinked == << <<"/">>, <<"o","p","e","n">> >>

\* The file behind the descriptor open() returned for path: the file the
\* path named at the open, also when the name has gone since.
OpenNode(tree, path) ==
    IF Unlinked \in DOMAIN tree THEN tree[Unlinked] ELSE NodeAt(tree, path)

\* Mutant of end_of_file: the loop is left on n < 0 only.
end_of_file_negative(n) == n < 0

\* if (n == 0) break;
end_of_file(n) == n = 0

\* One turn of the streaming loop: read(fd, buf, BUFSIZ) returns up to
\* BUFSIZ of the bytes left (possibly fewer), 0 at the end of the file.
stream ==
    /\ pc = "stream"
    /\ LET data == OpenNode(fs, info.path).data
           left == IF fd < Len(data) THEN Len(data) - fd ELSE 0
       IN  IF left = 0 /\ end_of_file(0) THEN
               /\ pc' = "fflush"
               /\ fd' = -1
               /\ out' = out
           ELSE
               \E n \in {Min(BUFSIZ, left), Min(1, left)} :
                   /\ pc' = pc
                   /\ fd' = fd + n
                   /\ out' = fwrite(out, SubSeq(data, fd + 1, fd + n))
    /\ UNCHANGED <<given, in, req, info, fs, msg, trace, heap, server>>

\* What a flush of out does: the output calls made so far, o, have all been
\* written to the socket.  (The buffer of out may be written out earlier,
\* when it fills; tr.written is what has been written at the least.)
flush(tr, o) == [tr EXCEPT !.written = o]

\* fflush(out); free_fileinfo(info)
fflush ==
    /\ pc = "fflush"
    /\ pc' = "free_request"
    /\ heap' = free_fileinfo(heap)
    /\ trace' = flush(trace, out)
    /\ UNCHANGED <<given, in, out, req, info, fs, fd, msg, server>>

\* Mutant of free_request: the connection is kept alive and service goes on
\* to the next request.
free_request_keep_alive ==
    /\ pc = "free_request"
    /\ pc' = IF StreamLen(in) > 0 THEN "read_request_line" ELSE "exit0"
    /\ heap' = EmptyHeap
    /\ UNCHANGED <<given, in, out, req, info, fs, fd, msg, trace, server>>

\* free_request(), after which service returns and the worker exits with 0:
\* the fields of the list from its head, then method, path, body (free(NULL)
\* does nothing) and the request.
free_request ==
    /\ pc = "free_request"
    /\ pc' = "exit0"
    /\ heap' = FreeAll(touch(heap, {Block("req", 0)}),
                   ListBlocks(Len(req.header), 1)
                   \o << Block("method", 0), Block("path", 0) >>
                   \o (IF req.body.null THEN <<>> ELSE << Block("body", 0) >>)
                   \o << Block("req", 0) >>)
    /\ UNCHANGED <<given, in, out, req, info, fs, fd, msg, trace, server>>

Next ==
    \/ read_request_line
    \/ read_header_field
    \/ content_length
    \/ read_body
    \/ respond_to
    \/ do_file_response
    \/ open_file
    \/ stream
    \/ fflush
    \/ free_request

Spec == Init /\ [][Next]_vars

\* ------------------------------------------------ requests with long lines
\* A header line X:aa...a of n characters (without its line end).
LongLine(n) == <<"X", ":">> \o Repeat("a", n - 2)

\* Header lines around the size of the line buffer: with its CR LF the first
\* fills the buffer exactly, the second leaves its LF behind, the third its
\* CR LF, the fourth and fifth a tail of their own, without and with a colon.
LongHeaderLines ==
    { LongLine(BUFSIZ - 3), LongLine(BUFSIZ - 2), LongLine(BUFSIZ - 1),
      LongLine(BUFSIZ), LongLine(BUFSIZ - 1) \o <<"b", ":", "c">>,
      HL_CL(<<"3">>) }

LongLineInputs ==
    { [form |-> "full", M |-> r[1], P |-> r[2],
       V |-> [t |-> S_HTTP1 \o <<"1">>, valid |-> TRUE, n |-> 1], eol |-> CRLF,
       hdrs |-> h, term |-> TRUE, tail |-> t, declared |-> LastDeclared(h)] :
        r \in { <<S_GET, <<"/","s">> >>, <<S_POST, <<"/","m">> >>,
                <<S_HEAD, <<"/","b">> >> },
        h \in UNION { [1..k -> LongHeaderLines] : k \in 1..MaxHeaders },
        t \in Tails }

InitLongLines ==
    /\ given \in LongLineInputs
    /\ in = Wire(given)
    /\ out = <<>>
    /\ pc = "read_request_line"
    /\ req = Worker(given).req
    /\ info = Worker(given).info
    /\ fs = InitialTree
    /\ fd = -1
    /\ msg = ""
    /\ trace = Worker(given).trace
    /\ heap = EmptyHeap
    /\ listener = [pc |-> "close", sock |-> 1, fds |-> {1}, accepted |-> 1]
                  @@ Started
    /\ procs = [p \in 1..MaxConn |->
                   IF p = 1 THEN [st |-> "running", status |-> -1, fds |-> {1},
                                  saved |-> Idle]
                   ELSE NoProcess]
    /\ conns = [k \in 1..MaxConn |-> IF k = 1 THEN "sent" ELSE "none"]
    /\ cur = 1

SpecLongLines == InitLongLines /\ [][Next]_vars

\* -------------------------------------------------------------- the server
\* server_main: the listener accepts a connection, forks a worker for it and
\* closes its own copy of the socket.  Each worker is a process of its own;
\* the worker variables hold the state of the worker on the processor and
\* procs[p].saved that of every other.  A connection's client first has sent
\* nothing (its worker blocks in fgets), then has sent its request, and may
\* then go away.

\* A request of the form <M> <P> HTTP/1.1 with header lines h and tail t.
Request(M, P, h, t) ==
    [form |-> "full", M |-> M, P |-> P,
     V |-> [t |-> S_HTTP1 \o <<"1">>, valid |-> TRUE, n |-> 1], eol |-> CRLF,
     hdrs |-> h, term |-> TRUE, tail |-> t, declared |-> LastDeclared(h)]

\* What the clients of the server send: a GET with a body that is answered
\* 200, a GET of a file that cannot be opened, and a line without a space.
ServerInputs ==
    { Request(S_GET, <<"/","e">>, << HL_CL(<<"2">>) >>,
              [s |-> <<"a","b">>, pad |-> 0]),
      Request(S_GET, <<"/","u">>, <<>>, NoTail),
      [Request(S_GET, <<"/","s">>, <<>>, NoTail) EXCEPT !.form = "nospace"] }

InitServer ==
    /\ given = Idle.given /\ in = Idle.in /\ out = Idle.out /\ pc = Idle.pc
    /\ req = Idle.req /\ info = Idle.info /\ fd = Idle.fd /\ msg = Idle.msg
    /\ trace = Idle.trace /\ heap = Idle.heap
    /\ fs = InitialTree
    /\ listener = [pc |-> "accept", sock |-> 0, fds |-> {}, accepted |-> 0]
                  @@ Started
    /\ procs = [p \in 1..MaxConn |-> NoProcess]
    /\ conns = [k \in 1..MaxConn |-> "none"]
    /\ cur = 0

\* The listener process ends: its descriptors are closed.
listener_exit(l, status) ==
    [l EXCEPT !.pc = status, !.sock = 0, !.fds = {}]

\* The processes that hold connection k open, the listener being process 0.
Holders(l, ps, k) ==
    (IF k \in l.fds THEN {0} ELSE {})
    \cup { p \in DOMAIN ps : k \in ps[p].fds }

\* A connection no process holds any more is closed.
Released(cs, l, ps) ==
    [k \in DOMAIN cs |->
        IF cs[k] # "none" /\ Holders(l, ps, k) = {} THEN "closed" ELSE cs[k]]

\* Mutant of may_accept: the listener waits for its workers to end, as
\* after a wait(2) in the loop.
may_accept_after_wait(l, ps) ==
    /\ l.pc = "accept"
    /\ \A p \in DOMAIN ps : ps[p].st # "running"

\* The listener is in accept(2); nothing else is waited for.
may_accept(l, ps) == l.pc = "accept"

\* sock = accept(server_fd, ...): the next connection.
accept ==
    /\ may_accept(listener, procs)
    /\ listener.accepted < MaxConn
    /\ LET k == listener.accepted + 1
       IN  /\ listener' = [listener EXCEPT !.pc = "fork", !.sock = k,
                                           !.fds = @ \cup {k}, !.accepted = k]
           /\ conns' = [conns EXCEPT ![k] = "unsent"]
    /\ UNCHANGED <<given, in, out, pc, req, info, fs, fd, msg, trace, heap,
                   procs, cur>>

\* sock < 0: log_exit("accept(2) failed"), the listener exits with 1.
accept_fails ==
    /\ listener.pc = "accept"
    /\ listener' = listener_exit(listener, "exit1")
    /\ conns' = Released(conns, listener', procs)
    /\ UNCHANGED <<given, in, out, pc, req, info, fs, fd, msg, trace, heap,
                   procs, cur>>

\* Mutant of child_fds: the child also holds every socket accepted before.
child_fds_all(l) == 1..l.accepted

\* The descriptors of accepted sockets the child inherits: the parent's.
child_fds(l) == l.fds

\* pid = fork(): a worker process for the accepted socket, or pid < 0 and
\* the listener exits with 3.
fork ==
    /\ listener.pc = "fork"
    /\ \/ \E g \in ServerInputs :
             /\ procs' = [procs EXCEPT ![listener.sock] =
                             [st |-> "running", status |-> -1,
                              fds |-> child_fds(listener), saved |-> Worker(g)]]
             /\ listener' = [listener EXCEPT !.pc = "close"]
       \/ /\ listener' = listener_exit(listener, "exit3")
          /\ procs' = procs
    /\ conns' = Released(conns, listener', procs')
    /\ UNCHANGED <<given, in, out, pc, req, info, fs, fd, msg, trace, heap,
                   cur>>

\* Mutant of close_sock: the listener keeps the socket open.
keep_sock(l) == [l EXCEPT !.pc = "accept", !.sock = 0]

\* close(sock) in the parent, and back to accept.
close_sock(l) == [l EXCEPT !.pc = "accept", !.sock = 0, !.fds = @ \ {l.sock}]

close ==
    /\ listener.pc = "close"
    /\ listener' = close_sock(listener)
    /\ conns' = Released(conns, listener', procs)
    /\ UNCHANGED <<given, in, out, pc, req, info, fs, fd, msg, trace, heap,
                   procs, cur>>

\* The client of connection k sends its request.
client_send(k) ==
    /\ conns[k] = "unsent"
    /\ conns' = [conns EXCEPT ![k] = "sent"]
    /\ UNCHANGED <<given, in, out, pc, req, info, fs, fd, msg, trace, heap,
                   listener, procs, cur>>

\* The client of connection k closes its end.
client_close(k) ==
    /\ conns[k] = "sent"
    /\ conns' = [conns EXCEPT ![k] = "gone"]
    /\ UNCHANGED <<given, in, out, pc, req, info, fs, fd, msg, trace, heap,
                   listener, procs, cur>>

\* Where the worker on the processor enters the kernel to read, from the
\* socket (fgets) or from the file (read), and may have to wait.
AtRead == pc \in {"read_request_line", "read_header_field", "stream"}

\* The scheduler puts worker p on the processor, when it is free or the
\* worker on it is at a read (the steps of two workers in between touch
\* nothing in common, so their order makes no difference); a worker whose
\* client has sent nothing stays blocked in fgets.
dispatch(p) ==
    /\ p # cur
    /\ cur = 0 \/ AtRead
    /\ procs[p].st = "running"
    /\ conns[p] # "unsent"
    /\ Load(procs[p].saved)
    /\ procs' = [q \in 1..MaxConn |->
                    IF q = p THEN [procs[q] EXCEPT !.saved = Idle]
                    ELSE IF q = cur THEN [procs[q] EXCEPT !.saved = Current]
                    ELSE procs[q]]
    /\ cur' = p
    /\ UNCHANGED <<fs, listener, conns>>

\* Mutant of sigchld: the handler is installed without SA_RESTART and the
\* signal interrupts accept(2), which fails with EINTR.
sigchld_eintr(l) ==
    IF l.pc = "accept" THEN listener_exit(l, "exit1") ELSE l

\* SIGCHLD at the listener: noop_handler runs and, with SA_RESTART, the
\* interrupted call is resumed.
sigchld(l) == l

\* Mutant of terminate: exit ends every process of the server, as it would
\* if the workers were threads of one process.
terminate_all(ps, p, status, final) ==
    [q \in DOMAIN ps |->
        IF q = p THEN [st |-> "exited", status |-> status, fds |-> {},
                       saved |-> final]
        ELSE IF ps[q].st = "running"
             THEN [ps[q] EXCEPT !.st = "exited", !.status = status, !.fds = {}]
             ELSE ps[q]]

\* The end of process p: its descriptors are closed; final is the state it
\* ended in.
terminate(ps, p, status, final) ==
    [ps EXCEPT ![p] = [st |-> "exited", status |-> status, fds |-> {},
                       saved |-> final]]

\* Mutant of at_exit: the process ends as by _exit(2), its streams unflushed.
at_exit_unflushed(tr, o) == tr

\* What exit(3) does before the process ends: every open stream is flushed.
at_exit(tr, o) == flush(tr, o)

\* exit(0) after service, or exit(1) in log_exit: the streams are flushed,
\* the worker on the processor ends, which closes its descriptors, and the
\* listener is sent SIGCHLD.  When the client is gone and output is still
\* in the buffer, the flush may raise SIGPIPE: signal_exit then ends the
\* worker with status 1 and the buffered output is not written.
exit ==
    /\ cur # 0
    /\ pc \in {"exit0", "exit1"}
    /\ \E sigpipe \in (IF conns[cur] = "gone" /\ trace.written # out
                       THEN {FALSE, TRUE} ELSE {FALSE}) :
          procs' = terminate(procs, cur,
                       IF pc = "exit0" /\ ~sigpipe THEN 0 ELSE 1,
                       IF sigpipe
                       THEN [Current EXCEPT !.pc = "exit1",
                                            !.msg = "exit by signal 13"]
                       ELSE [Current EXCEPT !.trace = at_exit(trace, out)])
    /\ listener' = sigchld(listener)
    /\ conns' = Released(conns, listener', procs')
    /\ Load(Idle)
    /\ cur' = 0
    /\ fs' = fs

\* signal_exit(): SIGPIPE reaches the worker that writes to a socket whose
\* client is gone.
signal_exit ==
    /\ cur # 0
    /\ conns[cur] = "gone"
    /\ pc \in {"stream", "fflush"}
    /\ log_exit("exit by signal 13")
    /\ UNCHANGED <<given, in, out, req, info, fs, fd, trace, heap, server>>

NextServer ==
    \/ accept
    \/ accept_fails
    \/ fork
    \/ close
    \/ \E k \in 1..MaxConn : client_send(k)
    \/ \E k \in 1..MaxConn : client_close(k)
    \/ \E p \in 1..MaxConn : dispatch(p)
    \/ exit
    \/ signal_exit
    \/ read_request_line
    \/ read_header_field
    \/ content_length
    \/ read_body
    \/ respond_to
    \/ do_file_response
    \/ open_file
    \/ stream
    \/ fflush
    \/ free_request

SpecServer == InitServer /\ [][NextServer]_vars

\* ------------------------------------------- one connection, fork to close
\* One connection from the fork of its worker on: the worker serves it and
\* exits, the listener closes its own copy of the socket, the client may go
\* away at any time.  The requests are answered 200 (GET and HEAD, of a small
\* file and of one of several chunks), 404, 405 (one with a body) and 501, or
\* end in an abort (a file that cannot be opened, a request line without a
\* space, a header section the client ends without its blank line).  The
\* worker's client has sent its request, so none of its reads blocks for
\* good, and the worker is a process the kernel keeps scheduling: its steps
\* and its exit are weakly fair.
ConnectionInputs ==
    { Request(m, p, <<>>, NoTail) :
        m \in { S_GET, S_HEAD, S_POST, <<"P","U","T">> },
        p \in { <<"/","s">>, <<"/","b">>, <<"/","m">>, <<"/","u">> } }
    \cup { [Request(S_GET, <<"/","s">>, [i \in 1..MaxHeaders |-> HL_Host],
                     NoTail) EXCEPT !.term = t] : t \in BOOLEAN }
    \cup { Request(S_POST, <<"/","s">>, << HL_CL(<<"2">>) >>,
                    [s |-> <<"a","b">>, pad |-> 0]),
            [Request(S_GET, <<"/","s">>, <<>>, NoTail) EXCEPT !.form = "nospace"] }

InitConnection ==
    /\ given \in ConnectionInputs
    /\ in = Wire(given)
    /\ out = <<>>
    /\ pc = "read_request_line"
    /\ req = Worker(given).req
    /\ info = Worker(given).info
    /\ fs = InitialTree
    /\ fd = -1
    /\ msg = ""
    /\ trace = Worker(given).trace
    /\ heap = EmptyHeap
    /\ listener = [pc |-> "close", sock |-> 1, fds |-> {1}, accepted |-> 1]
                  @@ Started
    /\ procs = [p \in 1..MaxConn |->
                   IF p = 1 THEN [st |-> "running", status |-> -1, fds |-> {1},
                                  saved |-> Idle]
                   ELSE NoProcess]
    /\ conns = [k \in 1..MaxConn |-> IF k = 1 THEN "sent" ELSE "none"]
    /\ cur = 1

NextConnection ==
    \/ close
    \/ \E k \in 1..MaxConn : client_close(k)
    \/ exit
    \/ signal_exit
    \/ read_request_line
    \/ read_header_field
    \/ content_length
    \/ read_body
    \/ respond_to
    \/ do_file_response
    \/ open_file
    \/ stream
    \/ fflush
    \/ free_request

SpecConnection ==
    /\ InitConnection
    /\ [][NextConnection]_vars
    /\ WF_vars(Next)
    /\ WF_vars(exit)

\* ------------------------------------------ a file changed while served
\* Another process changes the files of the document root while a worker
\* serves one of them: it truncates a file, extends it, replaces it by
\* another file (rename(2)) or removes it (unlink(2)).  Each file is changed
\* at most once.
RaceInputs ==
    { Request(m, p, <<>>, NoTail) :
        m \in { S_GET, S_HEAD }, p \in { <<"/","s">>, <<"/","c">> } }
    \cup { Request(S_GET, <<"/","s">>, << HL_CL(<<"2">>) >>,
                    [s |-> <<"a","b">>, pad |-> 0]) }

InitRace ==
    /\ given \in RaceInputs
    /\ in = Wire(given)
    /\ out = <<>>
    /\ pc = "read_request_line"
    /\ req = Worker(given).req
    /\ info = Worker(given).info
    /\ fs = InitialTree
    /\ fd = -1
    /\ msg = ""
    /\ trace = Worker(given).trace
    /\ heap = EmptyHeap
    /\ listener = [pc |-> "close", sock |-> 1, fds |-> {1}, accepted |-> 1]
                  @@ Started
    /\ procs = [p \in 1..MaxConn |->
                   IF p = 1 THEN [st |-> "running", status |-> -1, fds |-> {1},
                                  saved |-> Idle]
                   ELSE NoProcess]
    /\ conns = [k \in 1..MaxConn |-> IF k = 1 THEN "sent" ELSE "none"]
    /\ cur = 1

\* The files the other process works on, by their place in the tree.
ServedFiles == { << <<"w">>, <<"s">> >>, << <<"w">>, <<"c">> >> }
Untouched(k) == k \in DOMAIN fs /\ fs[k] = InitialTree[k]

\* The worker has file k open: the open file outlives its name.
HasOpen(k) ==
    /\ fd >= 0
    /\ Place(fs, listener.root, listener.cwd, info.path) = k

\* truncate(2): the file keeps its first n bytes.
truncate ==
    /\ \E k \in ServedFiles : \E n \in {0, 1} :
          /\ Untouched(k)
          /\ fs' = [fs EXCEPT ![k].data = SubSeq(@, 1, n)]
    /\ UNCHANGED <<given, in, out, pc, req, info, fd, msg, trace, heap, server>>

\* write(2) at the end of the file: two more bytes.
extend ==
    /\ \E k \in ServedFiles :
          /\ Untouched(k)
          /\ fs' = [fs EXCEPT ![k].data = @ \o <<"x", "y">>]
    /\ UNCHANGED <<given, in, out, pc, req, info, fd, msg, trace, heap, server>>

\* rename(2) of a file of four bytes onto the name.
replace ==
    /\ \E k \in ServedFiles :
          /\ Untouched(k)
          /\ fs' = (IF HasOpen(k) THEN Unlinked :> fs[k] ELSE <<>>)
                    @@ [fs EXCEPT ![k].data = <<"r", "r", "r", "r">>]
    /\ UNCHANGED <<given, in, out, pc, req, info, fd, msg, trace, heap, server>>

\* unlink(2) of the name.
remove ==
    /\ \E k \in ServedFiles :
          /\ Untouched(k)
          /\ fs' = (IF HasOpen(k) THEN Unlinked :> fs[k] ELSE <<>>)
                    @@ [j \in DOMAIN fs \ {k} |-> fs[j]]
    /\ UNCHANGED <<given, in, out, pc, req, info, fd, msg, trace, heap, server>>

NextRace ==
    \/ truncate
    \/ extend
    \/ replace
    \/ remove
    \/ read_request_line
    \/ read_header_field
    \/ content_length
    \/ read_body
    \/ respond_to
    \/ do_file_response
    \/ open_file
    \/ stream
    \/ fflush
    \/ free_request

SpecRace == InitRace /\ [][NextRace]_vars

\* ------------------------------------------------- the server as started
\* The ways the server is started: the docroot argument (a name, a path
\* that begins with a dot, an absolute path; /w/s is no directory), the
\* directory it is started in (/ or /w), with or without --debug and
\* --chroot.  A start that main gives up (log_exit, exit(1)) serves nothing.
Args ==
    { <<"w">>, <<".","/","w">>, <<"/","w">>, <<".">>, <<"d">>,
      <<".","/","d">>, <<".",".","/","w">>, <<"/","w","/","s">> }
Cwds == { <<>>, << <<"w">> >> }

\* What the first client sends.
MainInputs ==
    { Request(S_GET, <<"/","s">>, <<>>, NoTail),
      Request(S_GET, <<"/","s","e","c","r","e","t">>, <<>>, NoTail),
      Request(S_HEAD, <<"/","d">>, <<>>, NoTail),
      Request(S_POST, <<"/","s">>, << HL_CL(<<"2">>) >>,
              [s |-> <<"a","b">>, pad |-> 0]) }

InitMain ==
    /\ given \in MainInputs
    /\ in = Wire(given)
    /\ out = <<>>
    /\ pc = "read_request_line"
    /\ req = Worker(given).req
    /\ info = Worker(given).info
    /\ fs = InitialTree
    /\ fd = -1
    /\ msg = ""
    /\ trace = Worker(given).trace
    /\ heap = EmptyHeap
    /\ \E arg \in Args, cwd \in Cwds, debug_mode \in BOOLEAN, do_chroot \in BOOLEAN :
          /\ main(arg, cwd, debug_mode, do_chroot).ok
          /\ listener = [pc |-> "close", sock |-> 1, fds |-> {1}, accepted |-> 1]
                        @@ main(arg, cwd, debug_mode, do_chroot)
                        @@ [arg |-> arg, started_in |-> cwd,
                            debug_mode |-> debug_mode, do_chroot |-> do_chroot]
    /\ procs = [p \in 1..MaxConn |->
                   IF p = 1 THEN [st |-> "running", status |-> -1, fds |-> {1},
                                  saved |-> Idle]
                   ELSE NoProcess]
    /\ conns = [k \in 1..MaxConn |-> IF k = 1 THEN "sent" ELSE "none"]
    /\ cur = 1

SpecMain == InitMain /\ [][Next]_vars

\* ================================================================== claims
\* What the claims speak of, read off the request as sent and the output.

\* The method token as sent is name, whatever the case of its letters.
SentMethod(name) ==
    /\ given.form = "full"
    /\ Len(given.M) = Len(name)
    /\ \A i \in 1..Len(name) :
          given.M[i] = name[i] \/ (islower(given.M[i]) /\ toupper(given.M[i]) = name[i])

\* The file the sent path names under the document root.
Target == Lookup(fs, docroot \o <<"/">> \o given.P)

Kinds(o) == [i \in 1..Len(o) |-> o[i].k]
Positions(o, k) == { i \in 1..Len(o) : o[i].k = k }

\* The bytes written after the blank line.
RECURSIVE BodyAfter(_, _)
BodyAfter(o, i) ==
    IF i > Len(o) THEN <<>>
    ELSE (IF o[i].k = "body" THEN o[i].t ELSE <<>>) \o BodyAfter(o, i + 1)

BodyBytes(o) ==
    IF Positions(o, "blank") = {} THEN <<>>
    ELSE BodyAfter(o, (CHOOSE i \in Positions(o, "blank") : TRUE) + 1)

\* The number a short decimal numeral denotes.
RECURSIVE Val(_)
Val(t) ==
    IF t = <<>> THEN 0
    ELSE 10 * Val(SubSeq(t, 1, Len(t) - 1)) + DigitVal(t[Len(t)])

\* t is the decimal numeral of the natural number n.
Numeral(t, n) ==
    /\ Len(t) \in 1..9
    /\ \A i \in 1..Len(t) : isdigit(t[i])
    /\ (Len(t) > 1 => t[1] # "0")
    /\ Val(t) = n

Completed == pc = "exit0"

ParsePcs == {"read_request_line", "read_header_field", "content_length", "read_body"}
ParseMessages ==
    { "no request line", "parse error on request line (1)",
      "parse error on request line (2)", "parse error on request line (3)",
      "failed to read request header field",
      "parse error on request header field",
      "negative Content-Length value", "request body too long",
      "failed to read request body" }
ParseFailed == pc = "exit1" /\ msg \in ParseMessages
\* The worker has ended with exit status 1 after the request was parsed.
FailedAfterParse == pc = "exit1" /\ ~ParseFailed

HeaderBlock200(v, n) ==
    << [k |-> "status", s |-> "200 OK", t |-> v],
       [k |-> "Date", s |-> "", t |-> <<>>],
       [k |-> "Server", s |-> "r3u http/0.0.1", t |-> <<>>],
       [k |-> "Connection", s |-> "close", t |-> <<>>],
       [k |-> "Content-Length", s |-> "", t |-> DecDigits(n)],
       [k |-> "Content-Type", s |-> "text/html", t |-> <<>>],
       [k |-> "blank", s |-> "", t |-> <<>>] >>

\* C2: a HEAD of an existing regular file writes the header block a GET of
\* the same file writes (200, Content-Length = size, Content-Type, blank
\* line), nothing after it, and never opens the file.
C2_HeadLikeGetNoBody ==
    /\ (Completed /\ (SentMethod(S_GET) \/ SentMethod(S_HEAD)) /\ Target.kind = "reg") =>
           /\ Len(out) >= 7
           /\ SubSeq(out, 1, 7) =
                  HeaderBlock200(out[1].t, Len(Target.data))
    /\ (SentMethod(S_HEAD) /\ Target.kind = "reg") =>
           /\ trace.open = 0
           /\ fd = -1
           /\ Positions(out, "body") = {}
           /\ (Completed => Len(out) = 7)
           /\ ~FailedAfterParse

C2_Witness ==
    /\ Completed /\ SentMethod(S_HEAD) /\ Target.kind = "reg"
    /\ Len(Target.data) > 0
    /\ Len(out) = 7 /\ trace.open = 0

\* C3: a GET or HEAD of a path that is missing or not a regular file (a
\* directory, a device, a symbolic link) answers 404 without Content-Length,
\* Content-Type or body, and never opens the file.
C3_NotFound ==
    ((SentMethod(S_GET) \/ SentMethod(S_HEAD)) /\ Target.kind # "reg") =>
        /\ trace.open = 0
        /\ fd = -1
        /\ \A i \in 1..Len(out) :
              out[i].k \notin {"Content-Length", "Content-Type", "body"}
        /\ \A i \in Positions(out, "status") : out[i].s = "404 Not Found"
        /\ (Completed => Positions(out, "status") = {1})
        /\ ~FailedAfterParse

C3_Witness ==
    /\ Completed /\ SentMethod(S_GET) /\ Target.kind = "lnk"
    /\ out[1].s = "404 Not Found"

\* C4: a parsed request whose method is neither GET nor HEAD answers 405
\* when the method is POST and 501 otherwise, for every path, without any
\* lstat or open.
C4_MethodDispatch ==
    (given.form = "full" /\ ~SentMethod(S_GET) /\ ~SentMethod(S_HEAD)) =>
        /\ trace.lstat = 0 /\ trace.open = 0
        /\ \A i \in Positions(out, "status") :
              out[i].s = IF SentMethod(S_POST) THEN "405 Method Not Allowed"
                         ELSE "501 Not Implemented"
        /\ (Completed => Positions(out, "status") = {1})
        /\ pc \notin {"do_file_response", "open", "stream", "fflush"}
        /\ ~FailedAfterParse

C4_Witness ==
    /\ Completed /\ given.M = <<"G","E","T","S">> /\ Target.kind = "reg"
    /\ out[1].s = "501 Not Implemented"

StatusOf(o) == IF o # <<>> /\ o[1].k = "status" THEN o[1].s ELSE ""

\* C5: every completed response, whatever its status, ends its header block
\* with the blank line; a 404, 405 or 501 response is the status line, the
\* headers and the blank line, with nothing after it.
C5_BlankLineEndsHeaders ==
    Completed =>
        /\ Cardinality(Positions(out, "blank")) = 1
        /\ \A i \in 1..Len(out) : \A j \in Positions(out, "blank") :
              (out[i].k \notin {"blank", "body"}) => i < j
        /\ (StatusOf(out) \in {"404 Not Found", "405 Method Not Allowed",
                               "501 Not Implemented"}
               => out[Len(out)].k = "blank")

\* The kinds of output a complete response holds, in order.
ResponseShape(o) ==
    LET is200 == StatusOf(o) = "200 OK"
        head == <<"status", "Date", "Server", "Connection">>
                    \o (IF is200 THEN <<"Content-Length", "Content-Type">> ELSE <<>>)
                    \o <<"blank">>
    IN  /\ Len(o) >= Len(head)
        /\ SubSeq(Kinds(o), 1, Len(head)) = head
        /\ Len(o) <= Len(head) + 1
        /\ (Len(o) = Len(head) + 1 =>
               /\ o[Len(o)].k = "body"
               /\ is200
               /\ req.method = S_GET)

\* C6: in every response the output is, in this order and each once, the
\* status line HTTP/1.<n> <code> <reason> with n the parsed minor version,
\* Date, Server, Connection: close, for 200 Content-Length and Content-Type,
\* the blank line, and for a GET answered 200 the body bytes.
C6_OutputOrder ==
    Completed =>
        /\ ResponseShape(out)
        /\ req.protocol_minor_version >= 0
              => Numeral(out[1].t, req.protocol_minor_version)

\* The order alone, of the output calls made so far: each kind of line at
\* most once, the lines in their order, body bytes only after a blank line.
Rank(k) ==
    CASE k = "status" -> 1 [] k = "Date" -> 2 [] k = "Server" -> 3
      [] k = "Connection" -> 4 [] k = "Content-Length" -> 5
      [] k = "Content-Type" -> 6 [] k = "blank" -> 7 [] OTHER -> 8

OutputInOrder ==
    /\ \A i, j \in 1..Len(out) : i < j => Rank(out[i].k) < Rank(out[j].k)
    /\ (out # <<>> => out[1].k = "status")
    /\ \A i \in Positions(out, "body") : Positions(out, "blank") # {}

\* ---- the request as sent, for the claims about parsing
HasColon(line) == \E i \in 1..Len(line) : line[i] = ":"
Declared == given.declared.present
DeclaredText == given.declared.text
IsNumeral(t) ==
    /\ Len(t) >= 1
    /\ \A i \in 1..Len(t) : isdigit(t[i])
    /\ (Len(t) > 1 => t[1] # "0")

\* t, a numeral, denotes a number greater than the numeral u denotes.
NumeralGreater(t, u) ==
    \/ Len(t) > Len(u)
    \/ /\ Len(t) = Len(u)
       /\ \E i \in 1..Len(t) :
             /\ DigitVal(t[i]) > DigitVal(u[i])
             /\ \A j \in 1..(i - 1) : t[j] = u[j]

CapNumeral == <<"4","1","9","4","3","0","4">>

\* The request sent is one whose parse must fail: no request line, a space
\* missing, a protocol token that does not start with HTTP/1., no blank line
\* before the end of input, a header line without a colon, or fewer body
\* bytes than the last Content-Length declares.
Malformed ==
    \/ given.form # "full"
    \/ Len(given.V.t) < 7
    \/ \E i \in 1..7 : tolower(given.V.t[i]) # tolower(S_HTTP1[i])
    \/ ~given.term
    \/ \E i \in 1..Len(given.hdrs) : ~HasColon(given.hdrs[i])
    \/ /\ Declared /\ IsNumeral(DeclaredText)
       /\ ~NumeralGreater(DeclaredText, CapNumeral)
       /\ StreamLen(given.tail) < Val(DeclaredText)

\* C7: while the request is being read nothing has been written; a parse
\* that fails ends the worker with exit status 1 and no output at all, and a
\* malformed request never reaches the response.
C7_ParseFailureNoOutput ==
    /\ (pc \in ParsePcs => out = <<>>)
    /\ (ParseFailed => out = <<>>)
    /\ (pc \notin ParsePcs => (ParseFailed \/ ~Malformed))

C7_Witness ==
    /\ Malformed
    /\ pc = "exit1" /\ msg = "failed to read request body"
    /\ given.tail.s # <<>>
    /\ out = <<>>

\* ---- C8
RequestLineMessages ==
    { "no request line", "parse error on request line (1)",
      "parse error on request line (2)", "parse error on request line (3)" }

\* The request line sent has the form <M> <P> HTTP/1.<n> and a line end.
ValidRequestLine ==
    /\ given.form = "full"
    /\ given.V.valid
    /\ \A i \in 1..Len(given.M) : given.M[i] # SP
    /\ \A i \in 1..Len(given.P) : given.P[i] # SP

\* The parsed method is the sent one with its lowercase letters uppercased.
MethodUppercased ==
    /\ Len(req.method) = Len(given.M)
    /\ \A i \in 1..Len(given.M) :
          IF islower(given.M[i])
          THEN \E j \in 1..26 : LowerCase[j] = given.M[i] /\ UpperCase[j] = req.method[i]
          ELSE req.method[i] = given.M[i]

\* C8: for every request line <M> <P> HTTP/1.<n> with a line end,
\* read_request_line yields the method M uppercased, the path P unchanged
\* and the minor version n.
C8_RequestLineParsed ==
    (ValidRequestLine /\ pc # "read_request_line") =>
        /\ msg \notin RequestLineMessages
        /\ MethodUppercased
        /\ req.path = given.P
        /\ req.protocol_minor_version = given.V.n

\* The same for the request lines that fit the line buffer with their line
\* end: these are parsed as C8 says.
C8_ShortRequestLineParsed ==
    (/\ ValidRequestLine
     /\ pc # "read_request_line"
     /\ Len(RequestLineOf(given)) <= BUFSIZ - 1) =>
        /\ msg \notin RequestLineMessages
        /\ MethodUppercased
        /\ req.path = given.P
        /\ req.protocol_minor_version = given.V.n

\* ---- C9, C10
\* A Request has been built: read_request has returned.
Built == pc \notin ParsePcs /\ ~ParseFailed
BodyLen(b) == Len(b.s) + b.pad

\* The declared value is text that atol turns into 0.
DeclaresZero ==
    \/ DeclaredText = <<>>
    \/ DeclaredText = <<"0">>
    \/ /\ DeclaredText # <<>>
       /\ ~isdigit(DeclaredText[1])
       /\ DeclaredText[1] \notin {"+", "-", SP, TAB}

\* The declared value is the numeral of a positive number within the cap.
DeclaresPositive ==
    /\ IsNumeral(DeclaredText)
    /\ DeclaredText # <<"0">>
    /\ ~NumeralGreater(DeclaredText, CapNumeral)

\* C9: a built Request has a body of contentLength bytes.  Without a
\* Content-Length header, or with one that parses to 0, the body is empty and
\* no byte after the blank line is consumed; with a positive value N the
\* body is the N bytes that follow the blank line and exactly these are
\* consumed.
C9_BodyMatchesContentLength ==
    Built =>
        /\ BodyLen(req.body) = req.length
        /\ trace.afterHeaders = given.tail
        /\ (~Declared \/ DeclaresZero) =>
               /\ req.length = 0
               /\ req.body.null
               /\ ~trace.bodyAlloc
               /\ in = given.tail
        /\ (Declared /\ DeclaresPositive) =>
               /\ req.length = Val(DeclaredText)
               /\ ~req.body.null
               /\ StreamLen(given.tail) >= req.length
               /\ [s |-> req.body.s, pad |-> req.body.pad] = TakeBytes(given.tail, req.length)
               /\ in = DropBytes(given.tail, req.length)
               /\ StreamLen(in) = StreamLen(given.tail) - req.length

C9_Witness ==
    /\ Built /\ Declared /\ DeclaresPositive
    /\ req.length = 3
    /\ req.body.s = <<"a","b","c">>
    /\ in.s = <<"d","e">>

\* content_length and the cap check have run on the header block.
LengthChecked ==
    /\ pc \notin {"read_request_line", "read_header_field", "content_length"}
    /\ msg \notin RequestLineMessages
    /\ msg \notin { "failed to read request header field",
                    "parse error on request header field" }

DeclaresNegative ==
    /\ Len(DeclaredText) >= 2
    /\ DeclaredText[1] = "-"
    /\ IsNumeral(Tail(DeclaredText))
    /\ Tail(DeclaredText) # <<"0">>

NoBodyTouched ==
    /\ ~trace.bodyAlloc
    /\ req.body.null
    /\ in = trace.afterHeaders
    /\ out = <<>>

\* C10: a Request that read_request returns has 0 <= contentLength <= 4 MiB.
\* A declared 4194304 is accepted; a greater value, also one that saturates
\* the parse, ends the worker with "request body too long" before the body
\* buffer is allocated or a body byte read; a negative value ends it too.
C10_ContentLengthCap ==
    /\ (Built \/ pc = "read_body") =>
           (0 <= req.length /\ req.length <= MAX_REQUEST_BODY_LENGTH)
    /\ (LengthChecked /\ Declared /\ DeclaredText = CapNumeral) =>
           /\ msg \notin {"request body too long", "negative Content-Length value"}
           /\ req.length = MAX_REQUEST_BODY_LENGTH
    /\ (LengthChecked /\ Declared /\ IsNumeral(DeclaredText)
            /\ NumeralGreater(DeclaredText, CapNumeral)) =>
           /\ pc = "exit1" /\ msg = "request body too long"
           /\ NoBodyTouched
    /\ (LengthChecked /\ Declared /\ DeclaresNegative) =>
           /\ pc = "exit1" /\ msg = "negative Content-Length value"
           /\ NoBodyTouched

C10_Witness ==
    /\ Completed /\ Declared /\ DeclaredText = CapNumeral
    /\ req.length = MAX_REQUEST_BODY_LENGTH
    /\ BodyLen(req.body) = MAX_REQUEST_BODY_LENGTH
    /\ StreamLen(in) = 1

\* ---- C11
\* The header section has been read up to its blank line.
HeadersRead ==
    /\ pc \notin {"read_request_line", "read_header_field"}
    /\ msg \notin RequestLineMessages
    /\ msg \notin { "failed to read request header field",
                    "parse error on request header field" }

\* Field f is what the wire line says: the name is the text before the
\* first colon, the value the text after it without its leading spaces and
\* tabs, up to the end of the line.
FieldOfLine(f, line, eol) ==
    \E k \in 1..Len(line) :
        /\ line[k] = ":"
        /\ \A j \in 1..(k - 1) : line[j] # ":"
        /\ f.name = SubSeq(line, 1, k - 1)
        /\ \E b \in 0..(Len(line) - k) :
              /\ \A j \in (k + 1)..(k + b) : line[j] \in {SP, TAB}
              /\ (k + b < Len(line) => line[k + b + 1] \notin {SP, TAB})
              /\ f.value = SubSeq(line, k + b + 1, Len(line)) \o eol

\* The names looked up: in the case sent, in another case, and absent ones.
ProbeNames ==
    { S_ContentLength, uppcase(S_ContentLength),
      <<"H","o","s","t">>, <<"h","o","s","t">>, <<"X">>,
      <<"C","o","o","k","i","e">>, <<"C","o","n","t","e","n","t">> }

\* The two names are the same letters, case aside.
SameName(a, b) == Len(a) = Len(b) /\ uppcase(a) = uppcase(b)

\* The wire position of the i-th field of a list of n fields.
WirePos(n, i) == n - i + 1

\* C11: once the header lines are parsed, the header list holds one field
\* per wire line, in reverse wire order, duplicates kept; a lookup compares
\* names without regard to case and yields the value of the matching field
\* that came last on the wire (NULL when none matches); of several
\* Content-Length lines the last on the wire gives the body length.
C11_HeaderOrderAndLookup ==
    HeadersRead =>
        LET n == Len(req.header)
        IN  /\ n = Len(given.hdrs)
            /\ \A i \in 1..n :
                  FieldOfLine(req.header[i], given.hdrs[WirePos(n, i)], given.eol)
            /\ \A name \in ProbeNames :
                  LET at == { w \in 1..n :
                                SameName(req.header[WirePos(n, w)].name, name) }
                      r == lookup_header_field_value(req.header, name)
                  IN  IF at = {} THEN ~r.found
                      ELSE /\ r.found
                           /\ \E w \in at :
                                 /\ \A y \in at : y <= w
                                 /\ r.value = req.header[WirePos(n, w)].value
            /\ (/\ pc # "content_length"
                /\ Declared /\ IsNumeral(DeclaredText)
                /\ ~NumeralGreater(DeclaredText, CapNumeral)) =>
                   req.length = Val(DeclaredText)

C11_Witness ==
    /\ Completed
    /\ given.hdrs = << HL_CL(<<"3">>),
                       <<"c","o","n","t","e","n","t","-","l","e","n","g","t","h",":","2">> >>
    /\ Len(req.header) = 2
    /\ req.header[1].name = <<"c","o","n","t","e","n","t","-","l","e","n","g","t","h">>
    /\ req.header[2].name = S_ContentLength
    /\ req.length = 2

\* ---- C12
\* The step in which the worker on the processor aborts: log_exit is called,
\* and then the process ends with status 1.
Aborts ==
    /\ cur # 0
    /\ \/ pc # "exit1" /\ pc' = "exit1"
       \/ pc = "exit1" /\ procs'[cur].st = "exited"

\* C12: a worker's abort (a parse error, a failed open, SIGPIPE) ends that
\* worker only: the step leaves the listener where it is in its accept loop,
\* and leaves the state, the output, the outcome and the connection of every
\* other worker as they are.
C12_AbortIsolated ==
    [][Aborts =>
          /\ listener' = listener
          /\ fs' = fs
          /\ \A q \in 1..MaxConn :
                q # cur => (procs'[q] = procs[q] /\ conns'[q] = conns[q])]_vars

C12_Witness ==
    /\ procs[1].st = "exited" /\ procs[1].status = 1
    /\ procs[1].saved.msg = "exit by signal 13"
    /\ cur = 2 /\ procs[2].st = "running"
    /\ pc = "fflush" /\ Len(out) = 7 /\ out[1].s = "200 OK"
    /\ may_accept(listener, procs)

\* ---- C13
\* C13: a worker serves one cycle.  The request line is read once, from the
\* start of the input; at most one status line is written and whatever is
\* written carries Connection: close; once the request is built, the bytes
\* behind it (a pipelined request) stay unread for good; and a worker that
\* has reached exit takes no further step.
C13_OneCyclePerConnection ==
    /\ Cardinality(Positions(out, "status")) <= 1
    /\ (out # <<>>) =>
           /\ Len(out) >= 4
           /\ out[1].k = "status"
           /\ out[4] = [k |-> "Connection", s |-> "close", t |-> <<>>]
           /\ Positions(out, "Connection") = {4}
    /\ (pc = "read_request_line") => (in = Wire(given) /\ out = <<>>)
    /\ Built => in = DropBytes(given.tail, req.length)
    /\ (pc \in {"exit0", "exit1"}) => ~ENABLED Next

C13_Witness ==
    /\ Completed
    /\ given.tail = Pipelined /\ ~Declared
    /\ in = Pipelined
    /\ Positions(out, "status") = {1} /\ out[1].s = "200 OK"

\* ---- C14
\* The blocks a cycle of the request sent allocates: the request, its method
\* and path, three per header line, the body buffer when a body is read, and
\* for GET and HEAD the file-info with its path.
Allocated ==
    { Block("req", 0), Block("method", 0), Block("path", 0) }
    \cup UNION { { Block("h", w), Block("h.name", w), Block("h.value", w) } :
                 w \in 1..Len(given.hdrs) }
    \cup (IF req.length # 0 THEN { Block("body", 0) } ELSE {})
    \cup (IF SentMethod(S_GET) \/ SentMethod(S_HEAD)
          THEN { Block("info", 0), Block("info.path", 0) } ELSE {})

Forked(k) ==
    \/ k < listener.accepted
    \/ k = listener.accepted /\ listener.pc \in {"close", "accept", "exit1"}

\* C15: the listener holds at most the one socket it has just accepted; a
\* connection it has forked for has one worker, which alone (with the
\* listener until its close) holds the socket, and a connection not yet
\* forked for has none; and whenever the listener is in accept the next
\* connection can be accepted, whatever the workers are doing.
C15_ListenerNeverWaits ==
    /\ listener.fds \subseteq ({listener.sock} \ {0})
    /\ \A k \in 1..MaxConn :
          /\ Forked(k) <=> procs[k].st # "none"
          /\ Holders(listener, procs, k) \subseteq {0, k}
          /\ (procs[k].st = "running") => (k \in procs[k].fds)
    /\ (listener.pc = "accept" /\ listener.accepted < MaxConn) => ENABLED accept

C15_Witness ==
    /\ listener.pc = "accept" /\ listener.accepted = 2
    /\ procs[1].st = "running" /\ conns[1] = "unsent"
    /\ procs[2].st = "running" /\ cur = 2 /\ pc = "stream"

\* ---- C16
\* The line a field is written back as: name, colon, value (the value holds
\* the line end it was read with).
Serialized(f) == f.name \o <<":">> \o f.value

\* The header list the loop of read_request builds of lines, from list.
RECURSIVE ParsedBlock(_, _)
ParsedBlock(lines, list) ==
    IF lines = <<>> THEN list
    ELSE ParsedBlock(Tail(lines), << header_field_of(Head(lines)) >> \o list)

Reversed(q) == [i \in 1..Len(q) |-> q[Len(q) - i + 1]]
Range(q) == { q[i] : i \in 1..Len(q) }

\* C16: a parsed field, written back as name:value and parsed again, is the
\* same field; a parsed header block, written back in list order and parsed
\* again, holds the same pairs in the opposite order.
C16_ReserializedFieldParsesSame ==
    HeadersRead =>
        LET again == ParsedBlock([i \in 1..Len(req.header) |->
                                     Serialized(req.header[i])], <<>>)
        IN  /\ \A i \in 1..Len(req.header) :
                  /\ strchr(Serialized(req.header[i]), ":") # 0
                  /\ Len(Serialized(req.header[i])) <= BUFSIZ - 1
                  /\ header_field_of(Serialized(req.header[i])) = req.header[i]
            /\ again = Reversed(req.header)
            /\ Range(again) = Range(req.header)
            /\ req.header =
                   ParsedBlock([i \in 1..Len(given.hdrs) |->
                                   given.hdrs[i] \o given.eol], <<>>)

C16_Witness ==
    /\ HeadersRead
    /\ given.hdrs = << <<"X",":"," ",TAB,"v",":"," ","w">>, HL_Host >>
    /\ req.header[2] = [name |-> <<"X">>, value |-> <<"v",":"," ","w",CR,LF>>]
    /\ header_field_of(<<"X",":","v",":"," ","w",CR,LF>>) = req.header[2]

\* ---- C17
\* The protocol token sent begins with exactly the characters HTTP/1.
LiteralPrefix ==
    /\ given.form = "full"
    /\ Len(given.V.t) >= 7
    /\ SubSeq(given.V.t, 1, 7) = <<"H","T","T","P","/","1",".">>

\* C17: a request line whose third token is missing or does not begin with
\* exactly HTTP/1. makes the parse fail with a request-line error.
C17_LiteralPrefixRequired ==
    (given.form # "empty" /\ ~LiteralPrefix /\ pc # "read_request_line") =>
        (pc = "exit1" /\ msg \in RequestLineMessages /\ out = <<>>)

\* What holds instead: the prefix is compared without regard to case.
C17_PrefixAnyCase ==
    (given.form # "empty" /\ pc # "read_request_line"
        /\ ~(given.form = "full" /\ strncasecmp0(given.V.t, S_HTTP1))) =>
        (pc = "exit1" /\ msg \in RequestLineMessages /\ out = <<>>)

\* ---- C18
\* C18: no request that parses has a negative minor version, and no status
\* line carries one.
C18_MinorVersionNonNegative ==
    /\ (pc # "read_request_line" /\ msg \notin RequestLineMessages) =>
           req.protocol_minor_version >= 0
    /\ \A i \in Positions(out, "status") :
           \A j \in 1..Len(out[i].t) : isdigit(out[i].t[j])

\* ---- C20
\* get_fileinfo has run on the request's path.
Resolved == trace.lstat > 0

\* Document roots: the one served, the empty one main leaves after chroot,
\* one that ends with a slash, a relative one.
Docroots == { docroot, <<>>, <<"/","w","/">>, <<".","/","w">> }

\* C20: the path given to lstat and to open is the document root, a slash
\* and the URL path exactly as sent (its "..", its repeated slashes, its
\* percent-escapes untouched); no request is refused for its path, and the
\* file served or refused is the one the kernel finds under that path.
C20_PathPassedUnchanged ==
    /\ (pc \notin {"read_request_line"} /\ msg \notin RequestLineMessages
          /\ Len(RequestLineOf(given)) <= BUFSIZ - 1) =>
           req.path = given.P
    /\ Resolved =>
           /\ req.path = given.P
           /\ info.path = docroot \o <<"/">> \o given.P
           /\ \A d \in Docroots : build_fspath(d, req.path) = d \o <<"/">> \o given.P
           /\ trace.lstat = 1
           /\ info.ok <=> (Lookup(fs, docroot \o <<"/">> \o given.P).kind = "reg")
           /\ (fd >= 0) => info.ok
    /\ (respond_to_branch(req.method) = "do_file_response" /\ Completed) => Resolved

C20_Witness ==
    /\ Completed /\ SentMethod(S_GET)
    /\ given.P = <<"/",".",".","/","s","e","c","r","e","t">>
    /\ info.path = <<"/","w","/","/",".",".","/","s","e","c","r","e","t">>
    /\ out[1].s = "200 OK"
    /\ BodyBytes(out) = FileBytes(5)

\* ---- C19
\* Every header line sent fits the line buffer together with its line end.
LinesFit ==
    \A i \in 1..Len(given.hdrs) :
        Len(given.hdrs[i]) + Len(given.eol) <= BUFSIZ - 1

\* C19: the header section ends at the first wire line that is empty, and
\* only there: once it has ended every wire line before the blank line has
\* given one field and the input left is what follows the blank line; the
\* section is given up for a parse error only if a line holds no colon.
C19_HeaderSectionEnds ==
    /\ HeadersRead =>
           /\ given.term
           /\ Len(req.header) = Len(given.hdrs)
           /\ trace.afterHeaders = given.tail
    /\ (pc = "exit1" /\ msg = "parse error on request header field") =>
           \E i \in 1..Len(given.hdrs) : ~HasColon(given.hdrs[i])

\* The same for the requests whose header lines fit the line buffer.
C19_WithinBuffer == LinesFit => C19_HeaderSectionEnds

\* What a line of BUFSIZ - 2 characters does: its line feed is taken for the
\* blank line, and the Content-Length line behind it is never parsed.
C19_LongLineEndsSection ==
    /\ given.hdrs = << LongLine(BUFSIZ - 2), HL_CL(<<"3">>) >>
    /\ HeadersRead
    /\ Len(req.header) = 1
    /\ req.length = 0

\* ---- C21
\* The worker of connection p has ended after a complete cycle.
Served(p) == procs[p].st = "exited" /\ procs[p].status = 0

\* C21: when a worker has ended after a complete cycle, whatever the status
\* of its response (200, 404, 405, 501), every output call it made had been
\* written to the socket when its descriptor was closed; and the connection
\* of a worker is never closed while the worker runs, so the order is write,
\* flush, close.
C21_FlushedBeforeClose ==
    \A p \in 1..MaxConn :
        /\ Served(p) =>
               /\ procs[p].saved.out # <<>>
               /\ procs[p].saved.out[1].k = "status"
               /\ procs[p].saved.trace.written = procs[p].saved.out
        /\ (procs[p].st = "running") => (conns[p] # "closed")
        /\ (p = cur /\ pc \in {"free_request", "exit0"}
               /\ out[1].s = "200 OK") => trace.written = out

C21_Witness ==
    /\ Served(1) /\ conns[1] = "closed" /\ listener.pc = "accept"
    /\ procs[1].saved.out[1].s = "404 Not Found"
    /\ Len(procs[1].saved.trace.written) = 4

\* ---- C22
\* The worker of the connection has ended.
Ended == procs[1].st = "exited"

\* The two ways a worker ends: after a complete cycle, with a response
\* written and nothing logged, or by a fatal abort, with its message logged.
CompleteCycle(p) ==
    /\ procs[p].status = 0 /\ procs[p].saved.pc = "exit0"
    /\ procs[p].saved.msg = "" /\ procs[p].saved.out # <<>>
FatalAbort(p) ==
    /\ procs[p].status = 1 /\ procs[p].saved.pc = "exit1"
    /\ procs[p].saved.msg # ""

\* C22: the worker of a connection whose reads all return ends, and it ends
\* in one of the two ways, never both; the header loop is left for the body
\* only after the blank line, and otherwise (end of input, a line without a
\* colon) by an abort; the streaming loop is left for the flush only when
\* the file has been read to its end.
C22_ConnectionTerminates ==
    /\ <>Ended
    /\ [](Ended => (CompleteCycle(1) # FatalAbort(1)))
    /\ [][(pc = "read_header_field" /\ pc' # pc /\ cur' = cur) =>
             \/ pc' = "content_length" /\ FgetsLine(in) \in {<<LF>>, CRLF}
             \/ pc' = "exit1" /\ msg' # ""]_vars
    /\ [][(pc = "stream" /\ pc' # pc /\ cur' = cur) =>
             \/ pc' = "fflush" /\ fd = Len(Lookup(fs, info.path).data)
             \/ pc' = "exit1" /\ msg' = "exit by signal 13"]_vars

C22_Witness ==
    /\ Ended /\ CompleteCycle(1)
    /\ procs[1].saved.given.P = <<"/","b">>
    /\ Len(BodyBytes(procs[1].saved.out)) = 2 * BUFSIZ + 1

\* ---- C23
\* The number the Content-Length line of the response carries.
SentLength(o) ==
    Val(o[CHOOSE i \in Positions(o, "Content-Length") : TRUE].t)

\* C23: when a cycle has completed with a 200 response to a GET, the
\* number of body bytes written is the number its Content-Length line gave,
\* whatever another process did to the file between the lstat and the end of
\* the streaming loop.
C23_BodyLengthAsDeclared ==
    (Completed /\ SentMethod(S_GET) /\ out # <<>> /\ out[1].s = "200 OK") =>
        Len(BodyBytes(out)) = SentLength(out)

\* ---- C24
\* The directory the worker's paths start from: where docroot, with the
\* slash build_fspath puts behind it, leads in the worker's process.
ServedDirectory ==
    Place(fs, listener.root, listener.cwd, build_fspath(listener.docroot, <<>>))

\* C24: the directory get_fileinfo resolves its paths in is the directory
\* that passed main's lstat/S_ISDIR check, however the server was started.
C24_ServesValidatedDirectory ==
    (trace.lstat > 0) => ServedDirectory = listener.checked

\* ---- C25
\* C25: whenever the listener is at the top of its loop, in accept, it
\* holds no accepted socket, however many it has accepted; a running worker
\* holds its own connection's socket and no other, and that connection is
\* open; a worker that has exited holds nothing, and its connection is
\* closed as soon as the listener does not hold it either.
C25_SocketsHeldByWorkersOnly ==
    /\ (listener.pc = "accept") => (listener.fds = {} /\ listener.sock = 0)
    /\ \A k \in 1..MaxConn :
          /\ (procs[k].st = "running") =>
                 /\ procs[k].fds = {k}
                 /\ conns[k] \in {"unsent", "sent", "gone"}
          /\ (procs[k].st = "exited") =>
                 /\ procs[k].fds = {}
                 /\ (conns[k] = "closed") <=> (k \notin listener.fds)
          /\ (procs[k].st = "none") => (procs[k].fds = {})

C25_Witness ==
    /\ listener.pc = "accept" /\ listener.accepted = 2 /\ listener.fds = {}
    /\ procs[1].st = "running" /\ conns[1] = "sent"
    /\ procs[2].st = "exited" /\ procs[2].status = 0 /\ conns[2] = "closed"

====
